---- MODULE Spec2Model ----
(***************************************************************************)
(* Model of the QuikDB leaderboard API: the LeaderboardService scheduler   *)
(* (start / stop / updateLeaderboard / forceUpdate / getLeaderboard), the  *)
(* leaderboard_cache document it maintains, and the process lifecycle of   *)
(* LeaderboardAPI (boot and graceful shutdown).                            *)
(*                                                                         *)
(* JavaScript runs one handler at a time; an async function is cut into    *)
(* atomic segments at its awaits.  Every action below is one such segment  *)
(* (or one step of the database / the timers that resolve an await).       *)
(* Times are milliseconds.                                                 *)
(***************************************************************************)
EXTENDS Integers, Sequences, FiniteSets, Bags, TLC

\* ---------------------------------------------------------------- bounds
MaxTime == 60000           \* the clock stops advancing past this instant
MaxPollers == 1            \* stop() wait-pollers alive at the same time

\* ------------------------------------------------------ program constants
DefaultUpdateIntervalMs == 60000
CacheExpiryMs == 60000
TopLimit == 100
MaxWaitCount == 10

\* -------------------------------------------------------- modelling sets
TickSteps == {30000}                      \* granularity of the modelled clock
ConfiguredIntervals == {30000, DefaultUpdateIntervalMs}
Nodes == {"n1"}
NoDoc == [none |-> TRUE]                  \* no leaderboard_cache document
NoResp == [kind |-> "none"]
NoTelemetry == [none |-> TRUE]

VARIABLES
  isRunning,        \* LeaderboardService.isRunning
  isUpdating,       \* LeaderboardService.isUpdating (the in-progress guard)
  cacheCollection,  \* "null" or "handle"
  updateInterval,   \* 0 (null) or the id of the periodic timer start() armed
  timers,           \* live setInterval timers armed by start(): [id, interval, due]
  checkIntervals,   \* live stop() pollers: the bag of their waitCount values
  comps,            \* updateLeaderboard invocations past the guard, not yet ended
  cache,            \* the leaderboard_cache document in MongoDB, or NoDoc
  ttlIndex,         \* TRUE once the TTL index on expiresAt exists
  now,              \* Date.now()
  updateIntervalMs, \* process.env.LEADERBOARD_UPDATE_INTERVAL_MS || 60000
  isShuttingDown,   \* LeaderboardAPI.isShuttingDown
  proc,             \* "new", "up", "closingServer", "closingDb", "dbClosed", "exit0", "exit1"
  dbConnected,      \* mongoose connection is open
  outcome,          \* how the computation ended that ended in the last step, or "none"
  lastSuccess,      \* history: the document of the last cycle that ended "written", or NoDoc
  failedSince,      \* history: TRUE when a cycle has failed since that cycle
  telemetry,        \* the heartbeats and devices collections the aggregation reads,
                    \* or NoTelemetry where the aggregation result is left open
  stopSeen,         \* history: ids of the computations that were awaiting their
                    \* aggregation when stop() was called (recorded by StopObserved)
  response          \* the response the last step handed to a caller, or NoResp

vars == <<isRunning, isUpdating, cacheCollection, updateInterval, timers,
          checkIntervals, comps, cache, ttlIndex, now, updateIntervalMs,
          isShuttingDown, proc, dbConnected, outcome, lastSuccess, failedSince,
          telemetry, stopSeen, response>>

svcVars == <<isRunning, isUpdating, updateInterval, timers, checkIntervals, comps>>
apiVars == <<isShuttingDown, proc, dbConnected>>

\* ------------------------------------------------------------- helpers
Min(a, b) == IF a < b THEN a ELSE b

\* Array.prototype.slice(from, to): 0-based, end-exclusive; a negative index
\* counts from the end of the array
Max(a, b) == IF a > b THEN a ELSE b

RelativeIndex(k, len) == IF k < 0 THEN Max(len + k, 0) ELSE Min(k, len)

Slice(s, from, to) ==
  [i \in 1..(RelativeIndex(to, Len(s)) - RelativeIndex(from, Len(s))) |->
     s[i + RelativeIndex(from, Len(s))]]

FreshId(used) == CHOOSE i \in 1..(Cardinality(used) + 1) : i \notin used

\* Results the aggregation pipeline can return: ranked entries of distinct devices
RECURSIVE Orderings(_)
Orderings(S) ==
  IF S = {} THEN {<<>>}
  ELSE UNION {{<<x>> \o t : t \in Orderings(S \ {x})} : x \in S}

Ranked(order) == [i \in 1..Len(order) |-> [nodeId |-> order[i], rank |-> i]]

Leaderboards == {Ranked(o) : o \in UNION {Orderings(S) : S \in SUBSET Nodes}}

CacheDocument_Unsliced(leaderboard, t) ==
  [_id        |-> "leaderboard_cache",
   timestamp  |-> t,
   allNodes   |-> leaderboard,
   data       |-> leaderboard,
   totalNodes |-> Len(leaderboard),
   expiresAt  |-> t + CacheExpiryMs]

\* the cacheDocument object literal built by updateLeaderboard
CacheDocument(leaderboard, t) ==
  [_id        |-> "leaderboard_cache",
   timestamp  |-> t,
   allNodes   |-> leaderboard,
   data       |-> Slice(leaderboard, 0, TopLimit),
   totalNodes |-> Len(leaderboard),
   expiresAt  |-> t + CacheExpiryMs]

ReplaceOne_Patch(stored, doc) ==
  IF stored = NoDoc THEN doc
  ELSE [stored EXCEPT !.allNodes = doc.allNodes, !.timestamp = doc.timestamp]

\* replaceOne({_id}, doc, {upsert: true}): the stored document becomes doc
ReplaceOne(stored, doc) == doc

LeaderboardResult_AbsentIsNotFound(cached) ==
  IF cached = NoDoc
  THEN [kind |-> "read", status |-> 404]
  ELSE [kind |-> "read", status |-> 200, data |-> cached.data,
        allNodes |-> cached.allNodes, timestamp |-> cached.timestamp,
        totalNodes |-> cached.totalNodes, sentinel |-> FALSE]

\* what getLeaderboard returns for the document findOne gave it
LeaderboardResult(cached) ==
  IF cached = NoDoc
  THEN [kind |-> "read", status |-> 200, data |-> <<>>, allNodes |-> <<>>,
        timestamp |-> -1, totalNodes |-> 0, sentinel |-> TRUE]
  ELSE [kind |-> "read", status |-> 200, data |-> cached.data,
        allNodes |-> cached.allNodes, timestamp |-> cached.timestamp,
        totalNodes |-> cached.totalNodes, sentinel |-> FALSE]

Alive == proc \notin {"exit0", "exit1"}

\* ------------------------------------------------------------- initial state
Init ==
  /\ isRunning = FALSE
  /\ isUpdating = FALSE
  /\ cacheCollection = "null"
  /\ updateInterval = 0
  /\ timers = {}
  /\ checkIntervals = EmptyBag
  /\ comps = {}
  /\ cache = NoDoc
  /\ ttlIndex = FALSE
  /\ now = 0
  /\ updateIntervalMs \in ConfiguredIntervals
  /\ isShuttingDown = FALSE
  /\ proc = "new"
  /\ dbConnected = FALSE
  /\ outcome = "none"
  /\ lastSuccess = NoDoc
  /\ failedSince = FALSE
  /\ telemetry = NoTelemetry
  /\ stopSeen = {}
  /\ response = NoResp

\* ------------------------------------------------- LeaderboardService.initialize
\* outcomes: "ok"; "noDb" (mongoose.connection.db is undefined, the throw comes
\* before the handle is stored); "indexFail" (handle stored, createIndex throws)
InitOutcomes ==
  IF dbConnected THEN {"ok", "indexFail"}
  ELSE IF proc = "new" THEN {"noDb"} ELSE {"indexFail"}

HandleAfterInit(handle, res) == IF res = "noDb" THEN handle ELSE "handle"

\* ------------------------------------------- LeaderboardService.updateLeaderboard
NotRunningSkip_Never(running) == FALSE

NotRunningSkip(running) == ~running
BusySkip_Never == FALSE
BusySkip == isUpdating
UninitializedSkip_Never(handle) == FALSE

UninitializedSkip(handle) == handle = "null"

UpdateEnters_NoBusyCheck(running, handle) ==
  ~NotRunningSkip(running) /\ ~UninitializedSkip(handle)

UpdateEnters(running, handle) ==
  ~NotRunningSkip(running) /\ ~BusySkip /\ ~UninitializedSkip(handle)

updateLeaderboard_Unguarded(running, handle, waiter) ==
  /\ isUpdating' = TRUE
  /\ comps' = comps \cup {[id |-> FreshId({c.id : c \in comps}),
                           pc |-> "aggregate", doc |-> NoDoc, waiter |-> waiter]}

\* the synchronous head of updateLeaderboard, up to the await of aggregate();
\* waiter tells whether a forceUpdate caller awaits the returned promise
updateLeaderboard(running, handle, waiter) ==
  IF UpdateEnters(running, handle)
  THEN /\ isUpdating' = TRUE
       /\ comps' = comps \cup {[id |-> FreshId({c.id : c \in comps}),
                                pc |-> "aggregate", doc |-> NoDoc, waiter |-> waiter]}
  ELSE UNCHANGED <<isUpdating, comps>>

AbortBeforeCache_Never == FALSE

\* the pre-write check "if (!this.isRunning) return" after the aggregation
AbortBeforeCache == ~isRunning

OnUpdateError_CachesEmpty(stored) ==
  [_id |-> "leaderboard_cache", timestamp |-> now, allNodes |-> <<>>, data |-> <<>>,
   totalNodes |-> 0, expiresAt |-> now + CacheExpiryMs]

\* catch (error) { console.error(...) }: the stored document after a failed cycle
OnUpdateError(stored) == stored

EndUpdate_StaysBusyOnError(c, label) ==
  /\ isUpdating' = (label = "failed")
  /\ comps' = comps \ {c}
  /\ outcome' = label
  /\ lastSuccess' = IF label = "written" THEN c.doc ELSE lastSuccess
  /\ failedSince' = IF label = "written" THEN FALSE
                    ELSE IF label = "failed" THEN TRUE ELSE failedSince
  /\ UNCHANGED telemetry
  /\ stopSeen' = stopSeen \ {c.id}
  /\ response' = IF c.waiter THEN [kind |-> "refresh", status |-> 200] ELSE NoResp

\* finally { this.isUpdating = false } and the promise resolving to its awaiter
EndUpdate(c, label) ==
  /\ isUpdating' = FALSE
  /\ comps' = comps \ {c}
  /\ outcome' = label
  /\ lastSuccess' = IF label = "written" THEN c.doc ELSE lastSuccess
  /\ failedSince' = IF label = "written" THEN FALSE
                    ELSE IF label = "failed" THEN TRUE ELSE failedSince
  /\ UNCHANGED telemetry
  /\ stopSeen' = stopSeen \ {c.id}
  /\ response' = IF c.waiter THEN [kind |-> "refresh", status |-> 200] ELSE NoResp

\* aggregate() settles: the segment from line 126 to the await of replaceOne
AggregateDone(c) ==
  /\ Alive
  /\ c.pc = "aggregate"
  /\ \/ /\ EndUpdate(c, "failed")                 \* aggregate threw
        /\ cache' = OnUpdateError(cache)
     \/ /\ dbConnected
        /\ UNCHANGED cache
        /\ \E leaderboard \in Leaderboards :
             IF AbortBeforeCache
             THEN EndUpdate(c, "aborted")
             ELSE IF cacheCollection = "null"
             THEN EndUpdate(c, "noHandle")
             ELSE /\ comps' = (comps \ {c}) \cup
                       {[c EXCEPT !.pc = "replace", !.doc = CacheDocument(leaderboard, now)]}
                  /\ outcome' = "none"
                  /\ UNCHANGED <<lastSuccess, failedSince, telemetry, stopSeen>>
                  /\ response' = NoResp
                  /\ UNCHANGED isUpdating
  /\ UNCHANGED <<isRunning, cacheCollection, updateInterval, timers, checkIntervals,
                 ttlIndex, now, updateIntervalMs, apiVars>>

\* MongoDB executes (or rejects) the replaceOne the computation is awaiting
DbReplaceOne(c) ==
  /\ Alive
  /\ c.pc = "replace"
  /\ \/ /\ dbConnected
        /\ cache' = ReplaceOne(cache, c.doc)
        /\ comps' = (comps \ {c}) \cup {[c EXCEPT !.pc = "replaced"]}
     \/ /\ comps' = (comps \ {c}) \cup {[c EXCEPT !.pc = "replaceFailed"]}
        /\ UNCHANGED cache
  /\ UNCHANGED <<isRunning, isUpdating, cacheCollection, updateInterval, timers,
                 checkIntervals, ttlIndex, now, updateIntervalMs, apiVars>>
  /\ response' = NoResp
  /\ outcome' = "none"
  /\ UNCHANGED <<lastSuccess, failedSince, telemetry, stopSeen>>

\* the await of replaceOne returns or throws; catch / finally
ReplaceSettled(c) ==
  /\ Alive
  /\ c.pc \in {"replaced", "replaceFailed"}
  /\ EndUpdate(c, IF c.pc = "replaced" THEN "written" ELSE "failed")
  /\ cache' = IF c.pc = "replaced" THEN cache ELSE OnUpdateError(cache)
  /\ UNCHANGED <<isRunning, cacheCollection, updateInterval, timers, checkIntervals,
                 ttlIndex, now, updateIntervalMs, apiVars>>

\* ------------------------------------------------------ LeaderboardService.start
ArmTimer(ts, interval, t) ==
  ts \cup {[id |-> FreshId({x.id : x \in ts}), interval |-> interval, due |-> t + interval]}

start_NoRunningCheck(handle) ==
  /\ isRunning' = TRUE
  /\ updateLeaderboard(TRUE, handle, FALSE)
  /\ timers' = timers \cup {[id |-> FreshId({x.id : x \in timers}),
                              interval |-> updateIntervalMs, due |-> now + updateIntervalMs]}
  /\ updateInterval' = FreshId({x.id : x \in timers})
  /\ UNCHANGED checkIntervals

start(handle) ==
  IF isRunning
  THEN /\ UNCHANGED svcVars
  ELSE /\ isRunning' = TRUE
       /\ updateLeaderboard(TRUE, handle, FALSE)
       /\ timers' = ArmTimer(timers, updateIntervalMs, now)
       /\ updateInterval' = FreshId({x.id : x \in timers})
       /\ UNCHANGED checkIntervals

Start ==
  /\ Alive /\ ~isShuttingDown
  /\ start(cacheCollection)
  /\ UNCHANGED <<cacheCollection, cache, ttlIndex, now, updateIntervalMs,
                 apiVars>>
  /\ response' = NoResp
  /\ outcome' = "none"
  /\ UNCHANGED <<lastSuccess, failedSince, telemetry, stopSeen>>

\* ------------------------------------------------------- LeaderboardService.stop
ClearInterval_Forgotten(ts, id) == ts
ClearInterval(ts, id) == {t \in ts : t.id # id}

stop ==
  IF ~isRunning
  THEN /\ UNCHANGED svcVars
  ELSE /\ isRunning' = FALSE
       /\ timers' = IF updateInterval # 0 THEN ClearInterval(timers, updateInterval) ELSE timers
       /\ updateInterval' = 0
       /\ IF isUpdating
          THEN /\ BagCardinality(checkIntervals) < MaxPollers
               /\ checkIntervals' = checkIntervals (+) SetToBag({0})
          ELSE /\ UNCHANGED checkIntervals
       /\ UNCHANGED <<isUpdating, comps>>

StopCall ==
  /\ Alive /\ ~isShuttingDown
  /\ stop
  /\ UNCHANGED <<cacheCollection, cache, ttlIndex, now, updateIntervalMs,
                 apiVars>>
  /\ response' = NoResp
  /\ outcome' = "none"
  /\ UNCHANGED <<lastSuccess, failedSince, telemetry>>

Stop == StopCall /\ UNCHANGED stopSeen

\* the same call, with the computations it finds awaiting their aggregation
\* written to the history
StopObserved ==
  /\ StopCall
  /\ stopSeen' = stopSeen \cup {c.id : c \in {x \in comps : x.pc = "aggregate"}}

\* one 500 ms tick of a checkInterval poller created by stop()
WaitOver(waitCount) == ~isUpdating \/ waitCount > MaxWaitCount

Poll(w) ==
  /\ Alive
  /\ BagIn(w, checkIntervals)
  /\ LET waitCount == w + 1
         others == checkIntervals (-) SetToBag({w}) IN
       IF WaitOver(waitCount)
       THEN /\ checkIntervals' = others     \* clearInterval(checkInterval)
       ELSE /\ checkIntervals' = others (+) SetToBag({waitCount})
  /\ UNCHANGED <<isRunning, isUpdating, cacheCollection, updateInterval, timers, comps,
                 cache, ttlIndex, now, updateIntervalMs, apiVars>>
  /\ response' = NoResp
  /\ outcome' = "none"
  /\ UNCHANGED <<lastSuccess, failedSince, telemetry, stopSeen>>

\* ------------------------------------------- the setInterval callback of start()
TimerFire(t) ==
  /\ Alive
  /\ t \in timers
  /\ now >= t.due
  /\ timers' = (timers \ {t}) \cup {[t EXCEPT !.due = now + t.interval]}
  /\ updateLeaderboard(isRunning, cacheCollection, FALSE)
  /\ UNCHANGED <<isRunning, cacheCollection, updateInterval, checkIntervals,
                 cache, ttlIndex, now, updateIntervalMs, apiVars>>
  /\ response' = NoResp
  /\ outcome' = "none"
  /\ UNCHANGED <<lastSuccess, failedSince, telemetry, stopSeen>>

\* --------------------------- refreshLeaderboard -> forceUpdate -> updateLeaderboard
\* ------------------------------------------------ the API key middleware
\* app.use(apiKeyAuth) runs before every route; a request is named by its route
ValidApiKey == "key"                      \* config.auth.apiKey (API_KEY)
PublicPaths == {"/health", "/metrics", "/"}
LeaderboardPaths == {"/leaderboard", "/leaderboard/node/:nodeId",
                     "/leaderboard/top/:count", "/leaderboard/stats",
                     "/leaderboard/refresh"}
\* req.headers['x-api-key'] || req.query.api_key: absent, the valid key, another
ApiKeys == {<<>>, <<ValidApiKey>>, <<"other">>}

\* "next" when the request goes on to its route, else the status it is answered with
ApiKeyAuth(path, apiKey) ==
  IF path \in PublicPaths THEN "next"
  ELSE IF apiKey = <<>> THEN "401"
  ELSE IF apiKey[1] # ValidApiKey THEN "403"
  ELSE "next"

\* some request to path gets past the middleware
Authorized(path) == \E apiKey \in ApiKeys : ApiKeyAuth(path, apiKey) = "next"

Accepting == Alive /\ ~isShuttingDown

RefreshLeaderboard ==
  /\ Accepting
  /\ Authorized("/leaderboard/refresh")
  /\ updateLeaderboard(isRunning, cacheCollection, TRUE)
  /\ IF UpdateEnters(isRunning, cacheCollection)
     THEN /\ response' = NoResp
     ELSE /\ response' = [kind |-> "refresh", status |-> 200]
  /\ outcome' = "none"
  /\ UNCHANGED <<lastSuccess, failedSince, telemetry, stopSeen>>
  /\ UNCHANGED <<isRunning, cacheCollection, updateInterval, timers, checkIntervals,
                 cache, ttlIndex, now, updateIntervalMs, apiVars>>

\* ------------------------------------------ LeaderboardService.getLeaderboard
\* initialize() when the handle is unset, then findOne and the answer built from
\* the one document it returned; the step is taken at the instant MongoDB
\* executes the findOne
GetLeaderboard ==
  /\ Accepting
  /\ Authorized("/leaderboard")
  /\ \E res \in (IF cacheCollection = "null" THEN InitOutcomes ELSE {"none"}) :
       /\ cacheCollection' = IF res = "none" THEN cacheCollection
                              ELSE HandleAfterInit(cacheCollection, res)
       /\ ttlIndex' = (ttlIndex \/ res = "ok")
       /\ IF cacheCollection' = "null"
          THEN response' = [kind |-> "read", status |-> 500]   \* findOne on null throws
          ELSE \/ /\ dbConnected
                  /\ response' = LeaderboardResult(cache)
               \/ response' = [kind |-> "read", status |-> 500] \* findOne rejected
  /\ outcome' = "none"
  /\ UNCHANGED <<lastSuccess, failedSince, telemetry, stopSeen>>
  /\ UNCHANGED <<svcVars, cache, now, updateIntervalMs, apiVars>>

\* ------------------------------------- MongoDB TTL monitor on index {expiresAt: 1}
TtlReap ==
  /\ ttlIndex
  /\ cache # NoDoc
  /\ cache.expiresAt <= now
  /\ cache' = NoDoc
  /\ UNCHANGED <<svcVars, cacheCollection, ttlIndex, now, updateIntervalMs,
                 apiVars>>
  /\ response' = NoResp
  /\ outcome' = "none"
  /\ UNCHANGED <<lastSuccess, failedSince, telemetry, stopSeen>>

\* ------------------------------------------------------------------ the clock
\* One clock step is far longer than the 5.5 s a stop() poller can live and than
\* the continuation of a settled database call needs, so those run first; time
\* does not pass a periodic timer that is due either: its callback runs first.
Tick ==
  /\ Alive
  /\ \A t \in timers : now < t.due
  /\ checkIntervals = EmptyBag
  /\ \A c \in comps : c.pc \in {"aggregate", "replace"}
  /\ \E d \in TickSteps :
       /\ now + d <= MaxTime
       /\ now' = now + d
  /\ UNCHANGED <<svcVars, cacheCollection, cache, ttlIndex, updateIntervalMs,
                 apiVars>>
  /\ response' = NoResp
  /\ outcome' = "none"
  /\ UNCHANGED <<lastSuccess, failedSince, telemetry, stopSeen>>

\* ------------------------------------------------------------ LeaderboardAPI.start
ApiStart ==
  /\ proc = "new"
  /\ \/ /\ proc' = "exit1"                    \* connectDatabase throws: process.exit(1)
        /\ UNCHANGED <<svcVars, cacheCollection, ttlIndex, dbConnected>>
     \/ /\ dbConnected' = TRUE
        /\ \E res \in {"ok", "indexFail"} :
             /\ cacheCollection' = HandleAfterInit(cacheCollection, res)
             /\ ttlIndex' = (ttlIndex \/ res = "ok")
        /\ start("handle")
        /\ proc' = "up"
  /\ UNCHANGED <<cache, now, updateIntervalMs, isShuttingDown>>
  /\ response' = NoResp
  /\ outcome' = "none"
  /\ UNCHANGED <<lastSuccess, failedSince, telemetry, stopSeen>>

\* ------------------------------------ LeaderboardAPI.setupGracefulShutdown: shutdown
Signal ==
  /\ proc \in {"up", "closingServer", "closingDb", "dbClosed"}
  /\ IF isShuttingDown
     THEN /\ proc' = "exit1"                  \* process.exit(1)
          /\ UNCHANGED <<svcVars, isShuttingDown>>
     ELSE /\ isShuttingDown' = TRUE
          /\ stop
          /\ proc' = "closingServer"          \* awaiting server.close(resolve)
  /\ UNCHANGED <<cacheCollection, cache, ttlIndex, now, updateIntervalMs,
                 dbConnected>>
  /\ response' = NoResp
  /\ outcome' = "none"
  /\ UNCHANGED <<lastSuccess, failedSince, telemetry, stopSeen>>

\* server.close calls back once no request is open (a refresh request stays open
\* while it awaits its computation); closeDatabase() is then called
ServerClosed ==
  /\ proc = "closingServer"
  /\ \A c \in comps : ~c.waiter
  /\ proc' = "closingDb"
  /\ UNCHANGED <<svcVars, cacheCollection, cache, ttlIndex, now, updateIntervalMs,
                 isShuttingDown, dbConnected>>
  /\ response' = NoResp
  /\ outcome' = "none"
  /\ UNCHANGED <<lastSuccess, failedSince, telemetry, stopSeen>>

\* mongoose.connection.close() takes effect
CloseDatabase ==
  /\ proc = "closingDb"
  /\ dbConnected' = FALSE
  /\ proc' = "dbClosed"
  /\ UNCHANGED <<svcVars, cacheCollection, cache, ttlIndex, now, updateIntervalMs,
                 isShuttingDown>>
  /\ response' = NoResp
  /\ outcome' = "none"
  /\ UNCHANGED <<lastSuccess, failedSince, telemetry, stopSeen>>

\* "Graceful shutdown completed", process.exit(0)
Exit ==
  /\ proc = "dbClosed"
  /\ proc' = "exit0"
  /\ UNCHANGED <<svcVars, cacheCollection, cache, ttlIndex, now, updateIntervalMs,
                 isShuttingDown, dbConnected>>
  /\ response' = NoResp
  /\ outcome' = "none"
  /\ UNCHANGED <<lastSuccess, failedSince, telemetry, stopSeen>>

\* ------------------------------------------------------------ specification
Next ==
  \/ ApiStart
  \/ Start
  \/ Stop
  \/ \E w \in 0..MaxWaitCount : Poll(w)
  \/ \E t \in timers : TimerFire(t)
  \/ RefreshLeaderboard
  \/ \E c \in comps : AggregateDone(c)
  \/ \E c \in comps : DbReplaceOne(c)
  \/ \E c \in comps : ReplaceSettled(c)
  \/ GetLeaderboard
  \/ TtlReap
  \/ Tick
  \/ Signal
  \/ ServerClosed
  \/ CloseDatabase
  \/ Exit

Spec == Init /\ [][Next]_vars

\* the life cycle of the service alone (no reads, no expiry, no shutdown), with
\* the calls of stop() observed
StopNext ==
  \/ ApiStart
  \/ Start
  \/ StopObserved
  \/ \E w \in 0..MaxWaitCount : Poll(w)
  \/ \E t \in timers : TimerFire(t)
  \/ RefreshLeaderboard
  \/ \E c \in comps : AggregateDone(c)
  \/ \E c \in comps : DbReplaceOne(c)
  \/ \E c \in comps : ReplaceSettled(c)
  \/ Tick

StopSpec == Init /\ [][StopNext]_vars

\* ======================================================================
\* The aggregation pipeline of updateLeaderboard
\* ======================================================================
\* Times are counted in slots of 30 minutes, relative to $$NOW = 0 (a negative
\* time is in the past).  A score is held as an integer number of 1/ScoreUnit
\* points, so that every quotient of the pipeline is exact; a rounded score is
\* held in hundredths of a point.  Double-precision rounding errors of MongoDB
\* are not modelled.
SlotsPerHour == 2
SlotsPerDay == 48
WindowDays == 7
NewNodeDays == 7
NewNodeMaxHeartbeats == 10
MinimumUptime == 1800
ScoreUnit == 554400        \* lcm of the pipeline's divisors 154, 400, 200, 100, 672, 144

Null == <<>>
Some(v) == <<v>>
IfNull(x, default) == IF x = Null THEN default ELSE x[1]

RECURSIVE SumOver(_, _)
SumOver(f, S) ==
  IF S = {} THEN 0
  ELSE LET x == CHOOSE y \in S : TRUE IN f[x] + SumOver(f, S \ {x})

MaxOf(S) == CHOOSE x \in S : \A y \in S : y <= x
MinOf(S) == CHOOSE x \in S : \A y \in S : x <= y

\* The heartbeats collection is held as batches: a batch stands for one
\* heartbeat document per time in b.timestamps, all with the same deviceId and
\* the same metrics.
\* 1) { $match: { timestamp: { $gte: sevenDaysAgo } } }
InWindow_Always(t, nowT) == TRUE

InWindow(t, nowT) == t >= nowT - WindowDays * SlotsPerDay

Match(heartbeats, nowT) ==
  {b \in {[h EXCEPT !.timestamps = {t \in h.timestamps : InWindow(t, nowT)}] :
            h \in heartbeats} : b.timestamps # {}}

\* 2) hourBucket: { $dateTrunc: { date: '$timestamp', unit: 'hour' } }
HourBucket(t) == t \div SlotsPerHour

\* { $avg: { $cond: [present, value, null] } } over the documents of the batches B,
\* where value[b] is Null for a document without the value
Avg(value, B) ==
  LET present == {b \in B : value[b] # Null}
      count == SumOver([b \in present |-> Cardinality(b.timestamps)], present)
      total == SumOver([b \in present |-> value[b][1] * Cardinality(b.timestamps)], present)
  IN IF present = {} THEN Null ELSE Some(total \div count)

\* used / total * 100 when both are present and total > 0
UsagePercent(used, total) ==
  IF used # Null /\ total # Null /\ total[1] > 0
  THEN Some((used[1] * 100) \div total[1])
  ELSE Null

\* 3) { $group: { _id: '$deviceId', ... } }
GroupOf(deviceId, matched) ==
  LET B == {b \in matched : b.deviceId = deviceId}
      times == UNION {b.timestamps : b \in B}
      uptimes == {b.uptime[1] : b \in {x \in B : x.uptime # Null}}
  IN [_id             |-> deviceId,
      hoursOnlineSet  |-> {HourBucket(t) : t \in times},
      totalHeartbeats |-> SumOver([b \in B |-> Cardinality(b.timestamps)], B),
      avgNetworkSpeed |-> Avg([b \in B |-> b.speed], B),
      avgLatency      |-> Avg([b \in B |-> b.latency], B),
      avgCpuUsageRaw  |-> Avg([b \in B |-> b.cpu], B),
      avgMemoryUsage  |-> Avg([b \in B |-> UsagePercent(b.memUsed, b.memTotal)], B),
      avgDiskUsage    |-> Avg([b \in B |-> UsagePercent(b.diskUsed, b.diskTotal)], B),
      lastSeen        |-> MaxOf(times),
      firstSeen       |-> MinOf(times),
      maxUptime       |-> IF uptimes = {} THEN Null ELSE Some(MaxOf(uptimes))]

Group(matched) == {GroupOf(id, matched) : id \in {b.deviceId : b \in matched}}

\* 4) $lookup from devices and $arrayElemAt 0: the registry entry, or Null
DeviceInfo(deviceId, devices) ==
  LET found == {d \in devices : d.deviceId = deviceId}
  IN IF found = {} THEN Null ELSE Some(CHOOSE d \in found : TRUE)

\* 5) isNewNode: the manual grace period is active, or the device was created at
\* most 7 days ago
IsNewNode(deviceInfo, nowT) ==
  \/ /\ deviceInfo # Null
     /\ deviceInfo[1].isInGracePeriod = TRUE
     /\ deviceInfo[1].gracePeriodEndsAt # Null      \* else new Date(0), long past
     /\ nowT < deviceInfo[1].gracePeriodEndsAt[1]
  \/ /\ deviceInfo # Null
     /\ deviceInfo[1].createdAt # Null
     /\ nowT - deviceInfo[1].createdAt[1] <= NewNodeDays * SlotsPerDay

Derived(g, devices, nowT) ==
  [group              |-> g,
   hoursOnline7d      |-> Cardinality(g.hoursOnlineSet),
   hoursSinceLastSeen |-> nowT - g.lastSeen,            \* in slots
   isNewNode          |-> IsNewNode(DeviceInfo(g._id, devices), nowT)]

\* 6) component scores, in 1/ScoreUnit points
AvailabilityScore_NoUptimeGate(d) ==
  IF d.hoursOnline7d >= 154 THEN 45 * ScoreUnit
  ELSE 45 * d.hoursOnline7d * (ScoreUnit \div 154)

\* availabilityScore: 0 below 30 minutes of uptime, else min(hours / 154, 1) * 45
AvailabilityScore(d) ==
  IF IfNull(d.group.maxUptime, 0) < MinimumUptime THEN 0
  ELSE IF d.hoursOnline7d >= 154 THEN 45 * ScoreUnit
  ELSE 45 * d.hoursOnline7d * (ScoreUnit \div 154)

\* networkQualityScore: min(speed / 400, 1) * 20 + max(1 - latency / 200, 0) * 10
NetworkQualityScore(d) ==
  LET speed == IfNull(d.group.avgNetworkSpeed, 0)
      latency == IfNull(d.group.avgLatency, 200)
  IN (IF speed >= 400 THEN 20 * ScoreUnit ELSE 20 * speed * (ScoreUnit \div 400))
     + (IF latency >= 200 THEN 0 ELSE 10 * (200 - latency) * (ScoreUnit \div 200))

Headroom_NullIsIdle(usage, weight) ==
  LET u == IfNull(usage, 0)
  IN IF u >= 100 THEN 0 ELSE weight * (100 - u) * (ScoreUnit \div 100)

\* max(1 - usage / 100, 0) * weight, usage defaulting to 50
Headroom(usage, weight) ==
  LET u == IfNull(usage, 50)
  IN IF u >= 100 THEN 0 ELSE weight * (100 - u) * (ScoreUnit \div 100)

ResourceHeadroomScore(d) ==
  Headroom(d.group.avgCpuUsageRaw, 6) + Headroom(d.group.avgMemoryUsage, 3)
    + Headroom(d.group.avgDiskUsage, 1)

\* consistencyScore: min(hours / (168 * 0.8), 1) * 12, plus the recency decay
\* (0 after 72 hours, else max(1 - hours since last seen / 72, 0) * 3)
ConsistencyScore(d) ==
  (IF 5 * d.hoursOnline7d >= 672 THEN 12 * ScoreUnit
   ELSE 12 * 5 * d.hoursOnline7d * (ScoreUnit \div 672))
  + (IF d.hoursSinceLastSeen > 72 * SlotsPerHour THEN 0
     ELSE 3 * (72 * SlotsPerHour - d.hoursSinceLastSeen) * (ScoreUnit \div (72 * SlotsPerHour)))

CalculatedScore(d) ==
  AvailabilityScore(d) + NetworkQualityScore(d) + ResourceHeadroomScore(d)
    + ConsistencyScore(d)

Round2_Truncate(x) == x \div (ScoreUnit \div 100)

\* { $round: [x, 2] }: to the nearest hundredth, a tie going to the even one
Round2(x) ==
  LET unit == ScoreUnit \div 100
      q == x \div unit
      r == x % unit
  IN IF 2 * r > unit \/ (2 * r = unit /\ q % 2 = 1) THEN q + 1 ELSE q

\* 7) reputationScore, in hundredths
SeededAt100_Never(d) == FALSE

SeededAt100(d) == d.isNewNode /\ d.group.totalHeartbeats <= NewNodeMaxHeartbeats

ReputationScore(d) == IF SeededAt100(d) THEN 10000 ELSE Round2(CalculatedScore(d))

\* 8) status from the rounded score; a new node is never below 'good'
Status_NoGrace(isNewNode, reputationScore) ==
  IF reputationScore >= 7500 THEN "excellent"
  ELSE IF reputationScore >= 5500 THEN "good"
  ELSE IF reputationScore >= 4000 THEN "average"
  ELSE "poor"

Status(isNewNode, reputationScore) ==
  IF isNewNode
  THEN IF reputationScore >= 7500 THEN "excellent" ELSE "good"
  ELSE IF reputationScore >= 7500 THEN "excellent"
  ELSE IF reputationScore >= 5500 THEN "good"
  ELSE IF reputationScore >= 4000 THEN "average"
  ELSE "poor"

Scored(d) ==
  [_id                |-> d.group._id,
   totalHeartbeats    |-> d.group.totalHeartbeats,
   lastSeen           |-> d.group.lastSeen,
   isNewNode          |-> d.isNewNode,
   availabilityScore  |-> AvailabilityScore(d),
   networkQualityScore   |-> NetworkQualityScore(d),
   resourceHeadroomScore |-> ResourceHeadroomScore(d),
   consistencyScore   |-> ConsistencyScore(d),
   calculatedScore    |-> CalculatedScore(d),
   hoursSinceLastSeen |-> d.hoursSinceLastSeen,
   reputationScore    |-> ReputationScore(d),
   status             |-> Status(d.isNewNode, ReputationScore(d))]

\* stages 1 to 8: one scored document per device with a heartbeat in the window
ScoredNodes(t, nowT) ==
  {Scored(Derived(g, t.devices, nowT)) : g \in Group(Match(t.heartbeats, nowT))}

\* 9) { $sort: { reputationScore: -1, availabilityScore: -1, hoursSinceLastSeen: 1 } }
SortsBefore_ScoreOnly(a, b) == a.reputationScore > b.reputationScore

SortsBefore(a, b) ==
  \/ a.reputationScore > b.reputationScore
  \/ /\ a.reputationScore = b.reputationScore
     /\ \/ a.availabilityScore > b.availabilityScore
        \/ /\ a.availabilityScore = b.availabilityScore
           /\ a.hoursSinceLastSeen < b.hoursSinceLastSeen

SortedOrders_Any(docs) == Orderings(docs)

\* the orders $sort can produce: documents equal on all three keys come in any order
SortedOrders(docs) ==
  {o \in Orderings(docs) : \A i, j \in 1..Len(o) : i < j => ~SortsBefore(o[j], o[i])}

\* 10) rank = array index + 1, and 11) the projected shape (the fields that only
\* reformat an input for display are left out)
Project(order) ==
  [i \in 1..Len(order) |->
     [nodeId          |-> order[i]._id,
      rank            |-> i,
      reputationScore |-> order[i].reputationScore,
      status          |-> order[i].status,
      totalHeartbeats |-> order[i].totalHeartbeats,
      lastSeen        |-> order[i].lastSeen]]

\* the results DeviceHeartbeat.aggregate([...]) can return
Aggregate(t, nowT) == {Project(o) : o \in SortedOrders(ScoredNodes(t, nowT))}

\* ======================================================================
\* The read endpoints of the controller, over snapshots of many devices
\* ======================================================================
\* ----------------------------------------------------------------- bounds
MaxDevices == 101          \* devices in the largest aggregation result
MaxParamLen == 3           \* characters in the :count path parameter

\* ------------------------------------------------------ program constants
DefaultTopCount == 10
MaxTopCount == 100

\* sizes of the aggregation results that are written
DeviceCounts == {0, 1, 2, TopLimit - 1, TopLimit, MaxDevices}

\* the ranked list the aggregation returns for n devices; a device is named by
\* its number, and the scores (in hundredths) fall by ScoreStep from 100 with
\* the rank, so that the list runs through all four statuses
ScoreStep == 75
DeviceScore(i) == 10000 - ScoreStep * (i - 1)
DeviceList(n) ==
  [i \in 1..n |-> [nodeId |-> i, rank |-> i, reputationScore |-> DeviceScore(i),
                   status |-> Status(FALSE, DeviceScore(i))]]

\* :nodeId path parameters: devices that can be in a list, and two that never are
NodeIdParams == 0..(MaxDevices + 1)

\* :count path parameters, as sequences of characters
Chars == {"-", "0", "1", "."}
RECURSIVE StringsOfLen(_)
StringsOfLen(n) ==
  IF n = 0 THEN {<<>>}
  ELSE {<<ch>> \o t : ch \in Chars, t \in StringsOfLen(n - 1)}

CountParams == UNION {StringsOfLen(n) : n \in 1..MaxParamLen}

\* parseInt(string): an optional sign, then the longest run of decimal digits;
\* NaN when there is no digit.  (No parameter here has leading white space or
\* a 0x prefix.)
Digits == <<"0", "1", "2", "3", "4", "5", "6", "7", "8", "9">>
IsDigit(ch) == \E i \in 1..10 : Digits[i] = ch
DigitValue(ch) == (CHOOSE i \in 1..10 : Digits[i] = ch) - 1
NaN == [nan |-> TRUE, value |-> 0]

RECURSIVE ParseDigits(_, _, _)
ParseDigits(str, i, acc) ==
  IF i > Len(str) \/ ~IsDigit(str[i]) THEN acc
  ELSE ParseDigits(str, i + 1, acc * 10 + DigitValue(str[i]))

ParseInt(str) ==
  LET signed == Len(str) > 0 /\ str[1] \in {"-", "+"}
      first  == IF signed THEN 2 ELSE 1
  IN IF first > Len(str) \/ ~IsDigit(str[first]) THEN NaN
     ELSE [nan |-> FALSE,
           value |-> (IF signed /\ str[1] = "-" THEN -1 ELSE 1) * ParseDigits(str, first, 0)]

\* Math.min(parseInt(req.params.count) || 10, 100)
TopCount(param) ==
  LET parsed == ParseInt(param)
  IN Min(IF parsed.nan \/ parsed.value = 0 THEN DefaultTopCount ELSE parsed.value,
         MaxTopCount)

\* leaderboard.allNodes.find(node => node.nodeId === nodeId): the first match,
\* or <<>> for undefined
NodeLookup_TopOnly(leaderboard, nodeId) ==
  LET hits == {i \in 1..Len(leaderboard.data) : leaderboard.data[i].nodeId = nodeId}
  IN IF hits = {} THEN <<>>
     ELSE <<leaderboard.data[CHOOSE i \in hits : \A j \in hits : i <= j]>>

NodeLookup(leaderboard, nodeId) ==
  LET hits == {i \in 1..Len(leaderboard.allNodes) : leaderboard.allNodes[i].nodeId = nodeId}
  IN IF hits = {} THEN <<>>
     ELSE <<leaderboard.allNodes[CHOOSE i \in hits : \A j \in hits : i <= j]>>

\* what stays as it is while the endpoints are exercised
fixedVars == <<isRunning, isUpdating, cacheCollection, updateInterval, timers,
               checkIntervals, comps, ttlIndex, now, updateIntervalMs, isShuttingDown,
               proc, dbConnected, telemetry, stopSeen>>

\* booted with the default interval; the computation start() began has failed,
\* so nothing is cached and no computation is in flight
ApiInit ==
  /\ isRunning = TRUE
  /\ isUpdating = FALSE
  /\ cacheCollection = "handle"
  /\ updateInterval = 1
  /\ timers = ArmTimer({}, DefaultUpdateIntervalMs, 0)
  /\ checkIntervals = EmptyBag
  /\ comps = {}
  /\ cache = NoDoc
  /\ ttlIndex = TRUE
  /\ now = 0
  /\ updateIntervalMs = DefaultUpdateIntervalMs
  /\ isShuttingDown = FALSE
  /\ proc = "up"
  /\ dbConnected = TRUE
  /\ outcome = "none"
  /\ lastSuccess = NoDoc
  /\ failedSince = TRUE
  /\ telemetry = NoTelemetry
  /\ stopSeen = {}
  /\ response = NoResp

\* one whole successful cycle (forced by a refresh) whose aggregation returned n
\* devices: the cacheDocument is built and replaceOne stores it
CycleWrites(n) ==
  /\ Authorized("/leaderboard/refresh")
  /\ UpdateEnters(isRunning, cacheCollection)
  /\ cache' = ReplaceOne(cache, CacheDocument(DeviceList(n), now))
  /\ lastSuccess' = cache'
  /\ failedSince' = FALSE
  /\ outcome' = "written"
  /\ response' = [kind |-> "refresh", status |-> 200]
  /\ UNCHANGED fixedVars

\* GET /leaderboard/top/:count
GetTopNodes(param) ==
  /\ Accepting
  /\ Authorized("/leaderboard/top/:count")
  /\ \/ LET count == TopCount(param)
            leaderboard == LeaderboardResult(cache)
            topNodes == Slice(leaderboard.data, 0, count)
        IN response' = [kind |-> "top", status |-> 200, data |-> topNodes,
                        requestedCount |-> count, returnedCount |-> Len(topNodes),
                        totalNodes |-> leaderboard.totalNodes]
     \/ response' = [kind |-> "top", status |-> 500]      \* getLeaderboard threw
  /\ outcome' = "none"
  /\ UNCHANGED <<fixedVars, cache, lastSuccess, failedSince>>

\* GET /leaderboard/node/:nodeId; the response is kept with the nodeId it answers
GetNodeRanking(nodeId) ==
  /\ Accepting
  /\ Authorized("/leaderboard/node/:nodeId")
  /\ \/ LET leaderboard == LeaderboardResult(cache)
            nodeData == NodeLookup(leaderboard, nodeId)
        IN IF nodeData = <<>>
           THEN response' = [kind |-> "node", nodeId |-> nodeId, status |-> 404]
           ELSE response' = [kind |-> "node", nodeId |-> nodeId, status |-> 200,
                             data |-> nodeData[1],
                             totalNodes |-> leaderboard.totalNodes]
     \/ response' = [kind |-> "node", nodeId |-> nodeId, status |-> 500] \* getLeaderboard threw
  /\ outcome' = "none"
  /\ UNCHANGED <<fixedVars, cache, lastSuccess, failedSince>>

\* const allNodesData = leaderboard.allNodes || leaderboard.data; getLeaderboard
\* always returns an allNodes array, and an array is truthy even when empty
StatsInput_TopOnly(leaderboard) == leaderboard.data

StatsInput(leaderboard) == leaderboard.allNodes

\* reduce((sum, n) => sum + n, 0) over s[lo..hi]; addition is associative, so
\* the range is summed by halves, which keeps the evaluation shallow
RECURSIVE SumSeq(_, _, _)
SumSeq(s, lo, hi) ==
  IF lo > hi THEN 0
  ELSE IF lo = hi THEN s[lo]
  ELSE LET mid == (lo + hi) \div 2
       IN SumSeq(s, lo, mid) + SumSeq(s, mid + 1, hi)

\* Math.round(sum / count * 100) / 100 of scores held in hundredths: the mean
\* to the nearest hundredth, a tie going up (the scores are not negative here)
AverageScore(scores) ==
  LET count == Len(scores)
      sum == SumSeq(scores, 1, count)
  IN (2 * sum + count) \div (2 * count)

\* the statusCounts reduce: the number of nodes with each status (every entry
\* the pipeline projects has one of the four)
StatusCounts(nodes) ==
  [status \in {"excellent", "good", "average", "poor"} |->
     Cardinality({i \in 1..Len(nodes) : nodes[i].status = status})]

\* GET /leaderboard/stats
GetLeaderboardStats ==
  /\ Accepting
  /\ Authorized("/leaderboard/stats")
  /\ \/ LET leaderboard == LeaderboardResult(cache)
        IN IF Len(leaderboard.data) = 0
           THEN response' = [kind |-> "stats", status |-> 200, totalNodes |-> 0,
                             averageScore |-> 0, topScore |-> 0,
                             scoreDistribution |-> StatusCounts(<<>>)]
           ELSE LET allNodesData == StatsInput(leaderboard)
                    scores == [i \in 1..Len(allNodesData) |->
                                 allNodesData[i].reputationScore]
                IN response' = [kind |-> "stats", status |-> 200,
                                totalNodes |-> Len(allNodesData),
                                averageScore |-> AverageScore(scores),
                                topScore |-> MaxOf({scores[i] : i \in 1..Len(scores)}),
                                scoreDistribution |-> StatusCounts(allNodesData)]
     \/ response' = [kind |-> "stats", status |-> 500]    \* getLeaderboard threw
  /\ outcome' = "none"
  /\ UNCHANGED <<fixedVars, cache, lastSuccess, failedSince>>

\* a request the API key middleware answers itself: the route is not reached
RequestRejected(path, apiKey) ==
  /\ Accepting
  /\ ApiKeyAuth(path, apiKey) # "next"
  /\ response' = [kind |-> "auth", path |-> path, apiKey |-> apiKey,
                  status |-> IF ApiKeyAuth(path, apiKey) = "401" THEN 401 ELSE 403]
  /\ outcome' = "none"
  /\ UNCHANGED <<fixedVars, cache, lastSuccess, failedSince>>

ApiNext ==
  \/ \E n \in DeviceCounts : CycleWrites(n)
  \/ \E param \in CountParams : GetTopNodes(param)
  \/ \E nodeId \in NodeIdParams : GetNodeRanking(nodeId)
  \/ GetLeaderboardStats
  \/ \E path \in PublicPaths \cup LeaderboardPaths, apiKey \in ApiKeys :
       RequestRejected(path, apiKey)

ApiSpec == ApiInit /\ [][ApiNext]_vars

\* ----------------------------------------- telemetry the pipeline is run on
\* heartbeat batches of device deviceId: one heartbeat at each age (slots before
\* $$NOW) in ages, all carrying the same samples
Batch(deviceId, ages, net, res, uptime) ==
  [deviceId   |-> deviceId,
   timestamps |-> {0 - a : a \in ages},
   speed      |-> net.speed,
   latency    |-> net.latency,
   cpu        |-> res.cpu,
   memUsed    |-> res.memUsed,
   memTotal   |-> res.memTotal,
   diskUsed   |-> res.diskUsed,
   diskTotal  |-> res.diskTotal,
   uptime     |-> uptime]

Registry(deviceId, createdAgo, inGrace, graceEndsAt) ==
  [deviceId |-> deviceId, createdAt |-> Some(0 - createdAgo),
   isInGracePeriod |-> inGrace, gracePeriodEndsAt |-> graceEndsAt]

HourlyAges(hours) == {SlotsPerHour * k : k \in 0..(hours - 1)}

AgeSets ==
  { {0}, {0, 1, 2}, 0..9, 0..10, HourlyAges(160), HourlyAges(168),
    {75 * SlotsPerHour, WindowDays * SlotsPerDay + 4},
    {WindowDays * SlotsPerDay},
    {WindowDays * SlotsPerDay + 1, WindowDays * SlotsPerDay + 64} }

NetworkSamples ==
  { [speed |-> Some(400), latency |-> Some(0)],
    [speed |-> Some(0),   latency |-> Some(0)],
    [speed |-> Some(0),   latency |-> Null],
    [speed |-> Some(200), latency |-> Some(100)],
    [speed |-> Some(400), latency |-> Some(0 - 200)] }

NoResources ==
  [cpu |-> Null, memUsed |-> Null, memTotal |-> Null, diskUsed |-> Null, diskTotal |-> Null]

ResourceSamples ==
  { NoResources,
    [cpu |-> Some(0), memUsed |-> Some(0), memTotal |-> Some(8),
     diskUsed |-> Some(0), diskTotal |-> Some(100)],
    [cpu |-> Some(100), memUsed |-> Some(8), memTotal |-> Some(8),
     diskUsed |-> Some(100), diskTotal |-> Some(100)] }

Uptimes == {Some(0), Some(MinimumUptime), Some(90000)}

\* no registry entry, or one created 1, 7, 7 and a bit, or 60 days ago, the last
\* also with a manual grace period that is active, over, or has no end date
Registries(deviceId) ==
  { {} } \cup
  { {Registry(deviceId, ago, FALSE, Null)} :
      ago \in {SlotsPerDay, NewNodeDays * SlotsPerDay, NewNodeDays * SlotsPerDay + 1,
               60 * SlotsPerDay} } \cup
  { {Registry(deviceId, 60 * SlotsPerDay, TRUE, ends)} :
      ends \in {Some(SlotsPerDay), Some(0 - SlotsPerDay), Null} }

\* what the second device contributes: nothing, a registry entry without any
\* heartbeat, or one of a few fixed histories
Rivals ==
  { [heartbeats |-> {}, devices |-> {}],
    [heartbeats |-> {}, devices |-> {Registry("d2", SlotsPerDay, FALSE, Null)}],
    [heartbeats |-> {Batch("d2", HourlyAges(160), [speed |-> Some(400), latency |-> Some(0)],
                           NoResources, Some(90000))},
     devices |-> {Registry("d2", 60 * SlotsPerDay, FALSE, Null)}],
    [heartbeats |-> {Batch("d2", {0}, [speed |-> Some(0), latency |-> Null],
                           NoResources, Some(90000))},
     devices |-> {Registry("d2", SlotsPerDay, FALSE, Null)}],
    [heartbeats |-> {Batch("d2", {0, 1, 2}, [speed |-> Some(0), latency |-> Null],
                           NoResources, Some(0))},
     devices |-> {Registry("d2", SlotsPerDay, FALSE, Null)}],
    [heartbeats |-> {Batch("d2", {75 * SlotsPerHour}, [speed |-> Some(200), latency |-> Some(100)],
                           NoResources, Some(MinimumUptime))},
     devices |-> {}] }

TelemetryInputs ==
  { [heartbeats |-> {Batch("d1", ages, net, res, uptime)} \cup rival.heartbeats,
     devices    |-> registry \cup rival.devices] :
      ages \in AgeSets, net \in NetworkSamples, res \in ResourceSamples,
      uptime \in Uptimes, registry \in Registries("d1"), rival \in Rivals }

\* a device created 60 days ago, alone in the collections, with the given batches
Veteran(batches) ==
  [heartbeats |-> batches, devices |-> {Registry("d1", 60 * SlotsPerDay, FALSE, Null)}]

FastNetwork == [speed |-> Some(400), latency |-> Some(0)]

\* around the uptime gate and the 154-hour target of the availability score
AvailabilityInputs ==
  { Veteran({Batch("d1", ages, FastNetwork, NoResources, uptime)}) :
      ages \in {{0}, HourlyAges(153), HourlyAges(154), HourlyAges(168)},
      uptime \in {Null, Some(MinimumUptime - 1), Some(MinimumUptime), Some(90000)} }

\* utilizations inside, above and below 0..100 %, and a total of 0
ResourceEdgeSamples ==
  { [cpu |-> Some(50), memUsed |-> Some(4), memTotal |-> Some(8),
     diskUsed |-> Some(50), diskTotal |-> Some(100)],
    [cpu |-> Some(150), memUsed |-> Some(16), memTotal |-> Some(8),
     diskUsed |-> Some(200), diskTotal |-> Some(100)],
    [cpu |-> Some(0 - 50), memUsed |-> Some(4), memTotal |-> Some(8),
     diskUsed |-> Some(50), diskTotal |-> Some(100)],
    [cpu |-> Some(50), memUsed |-> Some(0 - 4), memTotal |-> Some(8),
     diskUsed |-> Some(0 - 50), diskTotal |-> Some(100)],
    [cpu |-> Null, memUsed |-> Some(4), memTotal |-> Some(0),
     diskUsed |-> Null, diskTotal |-> Some(100)] }

ResourceInputs ==
  { Veteran({Batch("d1", HourlyAges(160), FastNetwork, res, Some(90000))}) :
      res \in ResourceEdgeSamples }

\* heartbeats of one device of which only some carry a metric: two with the
\* samples given, three (or none) without latency, cpu usage and uptime
PartialInputs ==
  { Veteran({Batch("d1", {0, 2}, net, res, Some(90000))} \cup
            {Batch("d1", bare, [net EXCEPT !.latency = Null], NoResources, Null)
               : bare \in {rest} \ {{}}}) :
      net \in {[speed |-> Some(200), latency |-> Some(100)],
               [speed |-> Some(200), latency |-> Null],
               [speed |-> Null, latency |-> Some(100)]},
      res \in {NoResources,
               [cpu |-> Some(20), memUsed |-> Null, memTotal |-> Null,
                diskUsed |-> Null, diskTotal |-> Null]},
      rest \in {{}, {4, 6, 8}} }

\* booted, idle, nothing cached yet; the collections hold one of the inputs
ScoreInit ==
  /\ isRunning = TRUE
  /\ isUpdating = FALSE
  /\ cacheCollection = "handle"
  /\ updateInterval = 1
  /\ timers = ArmTimer({}, DefaultUpdateIntervalMs, 0)
  /\ checkIntervals = EmptyBag
  /\ comps = {}
  /\ cache = NoDoc
  /\ ttlIndex = TRUE
  /\ now = 0
  /\ updateIntervalMs = DefaultUpdateIntervalMs
  /\ isShuttingDown = FALSE
  /\ proc = "up"
  /\ dbConnected = TRUE
  /\ outcome = "none"
  /\ lastSuccess = NoDoc
  /\ failedSince = TRUE
  /\ telemetry \in TelemetryInputs \cup AvailabilityInputs \cup ResourceInputs
                   \cup PartialInputs
  /\ stopSeen = {}
  /\ response = NoResp

\* one whole successful cycle over the collections: aggregate, build the
\* cacheDocument, replaceOne
CycleAggregates ==
  /\ UpdateEnters(isRunning, cacheCollection)
  /\ \E leaderboard \in Aggregate(telemetry, 0) :
       cache' = ReplaceOne(cache, CacheDocument(leaderboard, now))
  /\ lastSuccess' = cache'
  /\ failedSince' = FALSE
  /\ outcome' = "written"
  /\ response' = NoResp
  /\ UNCHANGED fixedVars

ScoreNext == CycleAggregates

ScoreSpec == ScoreInit /\ [][ScoreNext]_vars

\* ======================================================================
\* Properties
\* ======================================================================
RefreshAck == [kind |-> "refresh", status |-> 200]

\* a step that is the setInterval callback / the refresh handler / a start() call
TimerStep == \E t \in timers : TimerFire(t)
BeginsComputation == \E c \in comps' : c.pc = "aggregate" /\ c \notin comps
EndedComps == {c \in comps : \A d \in comps' : d.id # c.id}

\* C1: under every interleaving of start(), timer fires, forced refreshes and
\* stop(), at most one computation is past the guard and not yet finished.
C1_SingleFlight == Cardinality(comps) <= 1

\* a periodic tick is due while a computation is in flight
C1_Witness ==
  /\ Cardinality(comps) = 1
  /\ isRunning
  /\ \E t \in timers : now >= t.due

\* C2: a timer fire or forced refresh arriving while a computation is in flight
\* starts no computation, and a computation only ever begins in a step that is
\* itself a trigger (start, timer callback, forced refresh): the end of a
\* computation never starts a held-back one.
C2_DroppedNotQueued ==
  [][ /\ ((TimerStep \/ RefreshLeaderboard) /\ comps # {} => comps' = comps)
      /\ (BeginsComputation =>
            Start \/ ApiStart \/ TimerStep \/ RefreshLeaderboard)
      /\ (EndedComps # {} => ~BeginsComputation) ]_vars

\* the periodic timer fired at the current instant while an older computation,
\* whose document was built earlier, is still writing
C2_Witness ==
  \E c \in comps, t \in timers :
    /\ c.pc = "replace"
    /\ c.doc.timestamp < now
    /\ t.due = now + t.interval

\* C3: a forced refresh made while a computation is in flight leaves the cache
\* document and the set of computations unchanged and is answered in the same
\* step, without waiting for the computation in flight.
C3_RefreshWhileBusy ==
  [][ RefreshLeaderboard /\ comps # {} =>
        /\ cache' = cache
        /\ comps' = comps
        /\ response' = RefreshAck ]_vars

\* a refresh was acknowledged while the computation in flight is still there
C3_Witness == response = RefreshAck /\ comps # {} /\ isUpdating

\* C4: a computation that ends in failure has not modified the cache document in
\* any of its steps; the stored document only ever changes to a complete
\* document written by a computation whose replaceOne succeeded (or is removed
\* by the TTL monitor).
C4_FailureLeavesCache ==
  [][ /\ (outcome' = "failed" =>
            /\ cache' = cache
            /\ \A c \in EndedComps : c.pc \in {"aggregate", "replaceFailed"})
      /\ (\A c \in EndedComps : c.pc = "replaced" => outcome' = "written")
      /\ (cache' # cache =>
            \/ cache' = NoDoc
            \/ \E c \in comps :
                 /\ c.pc = "replace"
                 /\ [c EXCEPT !.pc = "replaced"] \in comps'
                 /\ cache' = c.doc
                 /\ c.doc = CacheDocument(c.doc.allNodes, c.doc.timestamp)) ]_vars

\* a cycle failed on its cache write while an earlier snapshot is stored
C4_Witness == outcome = "failed" /\ cache # NoDoc /\ dbConnected

\* C5: the stored document is at every instant absent or one complete snapshot
\* (all fields built from one leaderboard at one time), and every successful
\* read answers with the fields of the single document stored at that instant,
\* also while a write is in flight.
WholeSnapshot(d) == d = CacheDocument(d.allNodes, d.timestamp)

C5_ReadsSeeWholeSnapshot ==
  [][ /\ (cache' = NoDoc \/ WholeSnapshot(cache'))
      /\ (response'.kind = "read" /\ response'.status = 200 =>
            /\ response' = LeaderboardResult(cache)
            /\ \/ response'.sentinel
               \/ /\ response'.data = Slice(response'.allNodes, 0, TopLimit)
                  /\ response'.totalNodes = Len(response'.allNodes)
                  /\ response'.timestamp = cache.timestamp) ]_vars

\* a read was answered with a snapshot while a cache write is in flight
C5_Witness ==
  /\ response.kind = "read"
  /\ response.status = 200
  /\ ~response.sentinel
  /\ \E c \in comps : c.pc \in {"replace", "replaced"} /\ c.doc # cache

\* C6: once shutdown has released the database connection, no stop() poller is
\* still waiting for a computation in flight (the drain wait is over first).
C6_DrainBeforeRelease ==
  proc \in {"dbClosed", "exit0"} => ~(isUpdating /\ checkIntervals # EmptyBag)

\* C7 (as stated): every computation that has started ends by writing its
\* snapshot or by failing, whether or not stop() was called meanwhile.
C7_RunsToCompletion == outcome \in {"none", "written", "failed"}

\* C7 (amended): stop() never removes or alters a computation in flight, the
\* guard or the cache; a computation whose aggregation returns while the service
\* is running goes on to the cache write, one whose aggregation returns after
\* stop() ends without writing, and a computation that already issued its write
\* is only ever ended by that write settling.
C7_StopDoesNotInterrupt ==
  [][ /\ (isRunning /\ ~isRunning' =>
            comps' = comps /\ isUpdating' = isUpdating /\ cache' = cache)
      /\ (outcome' = "aborted" =>
            ~isRunning /\ \A c \in EndedComps : c.pc = "aggregate")
      /\ (\A c \in comps :
            c.pc = "aggregate" /\ c \notin comps' =>
              IF isRunning
              THEN outcome' = "failed" \/
                   \E d \in comps' : /\ d.id = c.id /\ d.pc = "replace"
                                     /\ d.doc.timestamp = now /\ WholeSnapshot(d.doc)
              ELSE outcome' \in {"aborted", "failed"} /\ c \in EndedComps)
      /\ (\A c \in EndedComps : c.pc # "replace") ]_vars

\* a computation completed its cache write although stop() had been called
C7_Witness == outcome = "written" /\ ~isRunning /\ cache # NoDoc

\* C8: no forced-refresh caller is ever left waiting on the computation it
\* triggered (the acknowledgement does not await the end of the computation).
C8_AckBeforeCompletion == \A c \in comps : ~c.waiter

\* C9 (as stated): start() on a running service changes nothing; start() on a
\* service that is not running starts exactly one computation and arms exactly
\* one timer at the configured interval.
C9_StartRunsOne ==
  [][ /\ (Start /\ isRunning => UNCHANGED <<svcVars, cache, cacheCollection>>)
      /\ (~isRunning /\ isRunning' =>
            /\ Cardinality(comps') = Cardinality(comps) + 1
            /\ Cardinality(timers') = 1
            /\ \A t \in timers' : t.interval = updateIntervalMs) ]_vars

\* C9 (amended): start() on a running service changes nothing; start() on a
\* service that is not running arms exactly one timer at the configured interval
\* and calls the computation once, which starts unless a computation is still in
\* flight or the cache handle is unset, in which case it is skipped.
C9_StartArmsOne ==
  [][ /\ (Start /\ isRunning => UNCHANGED <<svcVars, cache, cacheCollection>>)
      /\ (~isRunning /\ isRunning' =>
            /\ Cardinality(timers') = 1
            /\ \A t \in timers' :
                 /\ t.interval = updateIntervalMs
                 /\ t.due = now + updateIntervalMs
                 /\ updateInterval' = t.id
            /\ IF comps # {} \/ cacheCollection' = "null"
               THEN comps' = comps
               ELSE /\ Cardinality(comps') = 1
                    /\ \A c \in comps' : c.pc = "aggregate" /\ ~c.waiter) ]_vars

\* start() has just run its immediate computation and armed the timer
C9_Witness ==
  /\ isRunning
  /\ now = 0
  /\ \E t \in timers : t.id = updateInterval /\ t.due = updateIntervalMs
  /\ \E c \in comps : c.pc = "aggregate" /\ ~c.waiter

\* C10: stop() cancels the periodic timer in the same step, so that while the
\* service is stopped no timer exists and no timer callback starts a
\* computation; stop() on a stopped service changes no state.
C10_StopCancelsTimer ==
  [][ /\ (isRunning /\ ~isRunning' => timers' = {} /\ updateInterval' = 0)
      /\ (~isRunning' => timers' = {})
      /\ (TimerStep /\ ~isRunning => comps' = comps)
      /\ (Stop /\ ~isRunning => UNCHANGED <<svcVars, cache, cacheCollection>>) ]_vars

\* stop() was called while a computation was in flight: timer gone, poller waiting
C10_Witness ==
  /\ ~isRunning
  /\ timers = {}
  /\ updateInterval = 0
  /\ checkIntervals # EmptyBag
  /\ comps # {}

\* C11: the step in which a computation fails releases the guard and starts no
\* computation (no retry inside the cycle), and after a failure every callback of
\* the periodic timer that finds the service running and no computation in
\* flight starts a new computation.
C11_FailureDoesNotBlock ==
  [][ /\ (outcome' = "failed" =>
            /\ ~isUpdating'
            /\ comps' = {}
            /\ timers' = timers)
      /\ (TimerStep /\ failedSince /\ isRunning /\ comps = {} => BeginsComputation) ]_vars

\* a cycle has failed, the periodic timer was re-armed at this instant and a
\* computation nobody awaits is in flight
C11_Witness ==
  /\ failedSince
  /\ isRunning
  /\ now > 0
  /\ \E c \in comps, t \in timers :
       c.pc = "aggregate" /\ ~c.waiter /\ t.due = now + t.interval

\* C12 (as stated): between a failed cycle and the next successful one, every
\* read that is answered returns the snapshot written by the last successful
\* cycle, never the "not yet calculated" sentinel.
C12_PreviousSnapshotServed ==
  [][ /\ response'.kind = "read"
      /\ response'.status = 200
      /\ failedSince
      /\ lastSuccess # NoDoc
      /\ comps = {}
      => response' = LeaderboardResult(lastSuccess) ]_vars

\* C13 (as stated): while the service is running and no cycle has failed since
\* the last write, the stored snapshot is never removed (it is only replaced),
\* and no read falls back to the sentinel once a snapshot has been written.
C13_FreshWritePrecedesExpiry ==
  [][ isRunning /\ ~failedSince =>
        /\ (cache # NoDoc => cache' # NoDoc)
        /\ (response'.kind = "read" /\ response'.status = 200 /\ lastSuccess # NoDoc
              => ~response'.sentinel) ]_vars

\* C14 (as stated): every document written to the cache expires one configured
\* refresh interval after the time it was built.
C14_ExpiryIsWritePlusInterval ==
  [][ cache' # cache /\ cache' # NoDoc =>
        cache'.expiresAt = cache'.timestamp + updateIntervalMs ]_vars

\* C15: the slot holds nothing or exactly one document with the fixed
\* identifier, and that document is the one built by the most recent cycle whose
\* write was applied: every field comes from that cycle, none from an earlier
\* one.
C15_SingleSlot ==
  \/ cache = NoDoc
  \/ /\ cache._id = "leaderboard_cache"
     /\ WholeSnapshot(cache)
     /\ \/ cache = lastSuccess
        \/ \E c \in comps : c.pc = "replaced" /\ cache = c.doc

\* a cycle has just replaced the snapshot of an earlier cycle that had other
\* entries
C15_Witness ==
  /\ lastSuccess # NoDoc
  /\ \E c \in comps :
       c.pc = "replaced" /\ cache = c.doc /\ cache.allNodes # lastSuccess.allNodes

\* C16: in every document a cycle writes, data is the first min(100, N) entries
\* of allNodes in the same order and totalNodes is N, the length of allNodes.
C16_TopIsPrefix ==
  [][ cache' # cache /\ cache' # NoDoc =>
        /\ Len(cache'.data) = Min(TopLimit, Len(cache'.allNodes))
        /\ \A i \in 1..Len(cache'.data) : cache'.data[i] = cache'.allNodes[i]
        /\ cache'.totalNodes = Len(cache'.allNodes) ]_vars

\* a written document ranks more than 100 devices and its top list stops at 100
C16_Witness ==
  /\ cache # NoDoc
  /\ outcome = "written"
  /\ Len(cache.allNodes) > TopLimit
  /\ Len(cache.data) = TopLimit

\* C17: a read that finds no cache document, and is not refused by the
\* database, is answered as a success with the sentinel: empty top list, empty
\* full list, null timestamp (-1 here) and total node count 0.
C17_SentinelWhenAbsent ==
  [][ response'.kind = "read" /\ cache = NoDoc /\ response'.status # 500 =>
        /\ response'.status = 200
        /\ response'.sentinel
        /\ response'.data = <<>>
        /\ response'.allNodes = <<>>
        /\ response'.timestamp = -1
        /\ response'.totalNodes = 0 ]_vars

\* the sentinel was served when no cycle had ever written a snapshot
C17_Witness ==
  /\ response.kind = "read"
  /\ response.status = 200
  /\ response.sentinel
  /\ lastSuccess = NoDoc
  /\ cache = NoDoc
  /\ \A c \in comps : c.pc \in {"aggregate", "replace"}

\* C18 (as stated): when initialize() failed at boot, every read made before a
\* cycle has written a snapshot is answered with the sentinel, never with an
\* error.
C18_SentinelAfterInitFailure ==
  [][ /\ response'.kind = "read"
      /\ proc = "up"
      /\ ~ttlIndex
      /\ cache = NoDoc
      /\ lastSuccess = NoDoc
      => response' = LeaderboardResult(NoDoc) ]_vars

\* C19 (as stated): the count a top-N request is answered with lies in 1..100
\* and the answer is the first min(count, size) entries of the top projection.
C19_CountClamped ==
  [][ response'.kind = "top" /\ response'.status = 200 =>
        /\ response'.requestedCount \in 1..MaxTopCount
        /\ LET top == LeaderboardResult(cache).data
               k == Min(response'.requestedCount, Len(top))
           IN response'.data = [i \in 1..k |-> top[i]] ]_vars

\* C20: a node lookup that the database does not refuse answers 200 with the
\* node's entry exactly when the identifier is in allNodes of the stored
\* snapshot (wherever it ranks), and 404, which is not the 500 of a failure,
\* otherwise (also when no snapshot is stored).
InFullList(nodeId) ==
  cache # NoDoc /\ \E i \in 1..Len(cache.allNodes) : cache.allNodes[i].nodeId = nodeId

C20_LookupInFullList ==
  [][ response'.kind = "node" /\ response'.status # 500 =>
        IF InFullList(response'.nodeId)
        THEN /\ response'.status = 200
             /\ response'.data.nodeId = response'.nodeId
             /\ \E i \in 1..Len(cache.allNodes) : cache.allNodes[i] = response'.data
        ELSE response'.status = 404 ]_vars

\* a node ranked beyond the top 100 was found
C20_Witness ==
  /\ response.kind = "node"
  /\ response.status = 200
  /\ response.data.rank > TopLimit
  /\ InFullList(response.data.nodeId)

\* ----------------------------------------------------------------------
\* helpers for the claims about the pipeline: the entries of the document the
\* step writes, and the scored document (stages 1 to 8) behind an entry
Written == cache' # cache /\ cache' # NoDoc
ScoredOf(nodeId) == CHOOSE d \in ScoredNodes(telemetry, 0) : d._id = nodeId

\* C22: in every written snapshot of N nodes entry i has rank i, every device
\* that was scored has exactly one entry, and no entry comes after one that it
\* beats on reputation score (higher first), then availability score (higher
\* first), then hours since last seen (lower first).
C22_RanksFollowSortOrder ==
  [][ Written =>
        LET nodes == cache'.allNodes
            key(i) == ScoredOf(nodes[i].nodeId)
        IN /\ \A i \in 1..Len(nodes) : nodes[i].rank = i
           /\ {nodes[i].nodeId : i \in 1..Len(nodes)}
                = {d._id : d \in ScoredNodes(telemetry, 0)}
           /\ Len(nodes) = Cardinality(ScoredNodes(telemetry, 0))
           /\ \A i, j \in 1..Len(nodes) :
                i < j =>
                  \/ key(i).reputationScore > key(j).reputationScore
                  \/ /\ key(i).reputationScore = key(j).reputationScore
                     /\ key(i).availabilityScore > key(j).availabilityScore
                  \/ /\ key(i).reputationScore = key(j).reputationScore
                     /\ key(i).availabilityScore = key(j).availabilityScore
                     /\ key(i).hoursSinceLastSeen <= key(j).hoursSinceLastSeen ]_vars

\* two nodes with the same reputation score were ranked by their availability
C22_Witness ==
  /\ cache # NoDoc
  /\ Len(cache.allNodes) = 2
  /\ cache.allNodes[1].reputationScore = cache.allNodes[2].reputationScore
  /\ ScoredOf(cache.allNodes[1].nodeId).availabilityScore
       > ScoredOf(cache.allNodes[2].nodeId).availabilityScore

\* C23 (as stated): every entry of every written snapshot has a reputation score
\* between 0 and 100 (0 and 10000 hundredths).
C23_ScoreWithinRange ==
  [][ Written =>
        \A i \in 1..Len(cache'.allNodes) :
          cache'.allNodes[i].reputationScore \in 0..10000 ]_vars

C25_GraceFloor ==
  [][ Written =>
        \A i \in 1..Len(cache'.allNodes) :
          LET entry == cache'.allNodes[i]
          IN IsNewNode(DeviceInfo(entry.nodeId, telemetry.devices), 0) =>
               entry.status = IF entry.reputationScore >= 7500 THEN "excellent" ELSE "good" ]_vars

\* a new node with a score below 40 is listed as good
C25_Witness ==
  /\ cache # NoDoc
  /\ \E i \in 1..Len(cache.allNodes) :
       /\ cache.allNodes[i].reputationScore < 4000
       /\ cache.allNodes[i].status = "good"
       /\ IsNewNode(DeviceInfo(cache.allNodes[i].nodeId, telemetry.devices), 0)

\* C26: for a node that is not new the listed score is the sum of the four
\* sub-scores rounded to the nearest hundredth, and the status is excellent from
\* 75, good from 55, average from 40 and poor below 40 of that rounded score.
C26_TierFromRoundedScore ==
  [][ Written =>
        \A i \in 1..Len(cache'.allNodes) :
          LET entry == cache'.allNodes[i]
              d == ScoredOf(entry.nodeId)
              sum == d.availabilityScore + d.networkQualityScore
                       + d.resourceHeadroomScore + d.consistencyScore
              hundredth == ScoreUnit \div 100
          IN ~IsNewNode(DeviceInfo(entry.nodeId, telemetry.devices), 0) =>
               /\ 2 * (sum - entry.reputationScore * hundredth) <= hundredth
               /\ 2 * (entry.reputationScore * hundredth - sum) <= hundredth
               /\ entry.status =
                    CASE entry.reputationScore >= 7500 -> "excellent"
                      [] entry.reputationScore \in 5500..7499 -> "good"
                      [] entry.reputationScore \in 4000..5499 -> "average"
                      [] OTHER -> "poor" ]_vars

\* a node that is not new sits exactly on the 75 threshold and is excellent
C26_Witness ==
  /\ cache # NoDoc
  /\ \E i \in 1..Len(cache.allNodes) :
       /\ cache.allNodes[i].reputationScore = 7500
       /\ cache.allNodes[i].status = "excellent"
       /\ ~IsNewNode(DeviceInfo(cache.allNodes[i].nodeId, telemetry.devices), 0)

\* C27: the devices listed in a written snapshot are exactly those with a
\* heartbeat no older than 7 days, and totalNodes counts exactly them; a
\* device with only a registry entry or only older heartbeats is not listed.
HasRecentHeartbeat(deviceId) ==
  \E b \in telemetry.heartbeats :
    b.deviceId = deviceId /\ \E t \in b.timestamps : 0 - t <= WindowDays * SlotsPerDay

IsScenarioNodeA(deviceId) ==
  /\ \E b \in telemetry.heartbeats :
       /\ b = Batch(deviceId, HourlyAges(160), [speed |-> Some(400), latency |-> Some(0)],
                    NoResources, Some(90000))
       /\ \A other \in telemetry.heartbeats : other.deviceId = deviceId => other = b
  /\ \E d \in telemetry.devices :
       /\ d = Registry(deviceId, 60 * SlotsPerDay, FALSE, Null)
       /\ \A other \in telemetry.devices : other.deviceId = deviceId => other = d

C28_ScenarioNodeA ==
  [][ Written =>
        \A i \in 1..Len(cache'.allNodes) :
          LET entry == cache'.allNodes[i]
              d == ScoredOf(entry.nodeId)
          IN IsScenarioNodeA(entry.nodeId) =>
               /\ d.availabilityScore = 45 * ScoreUnit
               /\ d.networkQualityScore = 30 * ScoreUnit
               /\ d.resourceHeadroomScore = 5 * ScoreUnit
               /\ d.consistencyScore = 15 * ScoreUnit
               /\ entry.reputationScore = 9500
               /\ entry.status = "excellent" ]_vars

\* the scenario device is listed with score 95
C28_Witness ==
  /\ cache # NoDoc
  /\ \E i \in 1..Len(cache.allNodes) :
       /\ IsScenarioNodeA(cache.allNodes[i].nodeId)
       /\ cache.allNodes[i].reputationScore = 9500

\* ----------------------------------------------------------------------
\* the full ranked list of the cached snapshot (empty when nothing is cached),
\* and what a computation done directly over it gives
FullList == IF cache = NoDoc THEN <<>> ELSE cache.allNodes
FullSum == SumSeq([i \in 1..Len(FullList) |-> FullList[i].reputationScore],
                  1, Len(FullList))
CountWithStatus(status) ==
  Cardinality({i \in 1..Len(FullList) : FullList[i].status = status})
ZeroStats(r) ==
  /\ r.totalNodes = 0 /\ r.averageScore = 0 /\ r.topScore = 0
  /\ \A status \in DOMAIN r.scoreDistribution : r.scoreDistribution[status] = 0
StatsServed == response'.kind = "stats" /\ response'.status = 200
StatsOverFullList(r) ==
  /\ r.totalNodes = Len(FullList)
  /\ DOMAIN r.scoreDistribution = {"excellent", "good", "average", "poor"}
  /\ \A status \in DOMAIN r.scoreDistribution :
       r.scoreDistribution[status] = CountWithStatus(status)
  /\ r.scoreDistribution["excellent"] + r.scoreDistribution["good"]
       + r.scoreDistribution["average"] + r.scoreDistribution["poor"] = Len(FullList)
  /\ ZeroStats(r) <=> Len(FullList) = 0
  /\ Len(FullList) > 0 =>
       /\ \E i \in 1..Len(FullList) : FullList[i].reputationScore = r.topScore
       /\ \A i \in 1..Len(FullList) : FullList[i].reputationScore <= r.topScore

\* C21 (as stated): a served stats response has the node count, the maximum and
\* the status histogram of the full list, the histogram summing to the node
\* count, is all zero exactly when the list is empty, and its mean is the mean
\* of the scores of the full list.
C21_StatsEqualDirectMean ==
  [][ StatsServed =>
        /\ StatsOverFullList(response')
        /\ response'.averageScore * Len(FullList) = FullSum ]_vars

\* C21 (amended): as above, but the mean is the mean of the full list rounded
\* to two decimals (at most half a hundredth away from it).
C21_StatsOverFullList ==
  [][ StatsServed =>
        /\ StatsOverFullList(response')
        /\ 2 * (response'.averageScore * Len(FullList) - FullSum) <= Len(FullList)
        /\ 2 * (FullSum - response'.averageScore * Len(FullList)) <= Len(FullList) ]_vars

\* stats were served for a list longer than the top-100 projection, with a mean
\* that is not the mean of the projection
C21_Witness ==
  /\ response.kind = "stats" /\ response.status = 200
  /\ cache # NoDoc
  /\ Len(cache.allNodes) > Len(cache.data)
  /\ response.totalNodes = Len(cache.allNodes)
  /\ response.scoreDistribution["poor"] > 0
  /\ response.averageScore
       # AverageScore([i \in 1..Len(cache.data) |-> cache.data[i].reputationScore])

\* C29 (as stated): no request to a leaderboard path that carries no API key is
\* turned away by the middleware.
C29_ServedWithoutKey ==
  ~(/\ response.kind = "auth"
    /\ response.path \in LeaderboardPaths
    /\ response.apiKey = <<>>)

\* ----------------------------------------------------------------------
\* C30 (as stated): a computation that was awaiting its aggregation when stop()
\* was called never writes to the cache: it is never found with its replaceOne
\* executed.
C30_StoppedNeverWrites ==
  \A c \in comps : c.id \in stopSeen => c.pc # "replaced"

\* C30 (amended): while the service is stopped no computation passes from the
\* aggregation to the write (its aggregation settling ends it with nothing
\* written), and a step that stores a snapshot stores the document of a
\* computation that was already awaiting replaceOne.
C30_NoWriteWhileStopped ==
  [][ ~isRunning =>
        /\ \A c \in comps : c.pc = "aggregate" =>
             \A d \in comps' : d.id = c.id => d.pc = "aggregate"
        /\ cache' # cache /\ cache' # NoDoc =>
             \E c \in comps : c.pc = "replace" /\ cache' = c.doc ]_vars

\* stop() found a computation awaiting its aggregation, the service is still
\* stopped, and the computation has ended with its result discarded
C30_Witness ==
  /\ ~isRunning
  /\ outcome = "aborted"
  /\ comps = {}
  /\ cache = NoDoc

\* ----------------------------------------------------------------------
\* C31: the guard isUpdating is set exactly while a computation is in flight,
\* and the step in which a computation ends, however it ends (written, failed,
\* aborted because the service was stopped, cache handle missing), leaves the
\* guard reset with no computation in flight.
C31_GuardTracksComputation ==
  [][ /\ isUpdating' <=> comps' # {}
      /\ outcome' \in {"written", "failed", "aborted", "noHandle"} =>
           ~isUpdating' /\ EndedComps # {} ]_vars

\* after a cycle that wrote its snapshot, a later computation was aborted because
\* the service was stopped, and the guard is reset
C31_Witness ==
  /\ outcome = "aborted"
  /\ ~isUpdating
  /\ comps = {}
  /\ lastSuccess # NoDoc

\* C32: in every reachable state the periodic timer is armed exactly when the
\* service is marked running, updateInterval then holds its handle, and there
\* is never more than one periodic timer.
C32_TimerIffRunning ==
  /\ isRunning <=> timers # {}
  /\ Cardinality(timers) <= 1
  /\ \A t \in timers : t.id = updateInterval
  /\ ~isRunning => updateInterval = 0

\* the service was stopped during a computation (the poller of that stop() is
\* still there) and started again: it is running with exactly one timer
C32_Witness ==
  /\ isRunning
  /\ checkIntervals # EmptyBag
  /\ Cardinality(timers) = 1

\* C33: a forced refresh handled while the service is not running starts no
\* computation, leaves the guard, the computations and the cache document as
\* they are, and is answered 200 in the same step.
C33_RefreshWhileStopped ==
  [][ RefreshLeaderboard /\ ~isRunning =>
        /\ comps' = comps
        /\ isUpdating' = isUpdating
        /\ cache' = cache
        /\ response' = RefreshAck ]_vars

\* a refresh was acknowledged by the handler itself while the service is
\* stopped, with nothing in flight and a snapshot from before the stop cached
C33_Witness ==
  /\ response = RefreshAck
  /\ outcome = "none"
  /\ ~isRunning
  /\ comps = {}
  /\ cache # NoDoc

\* C34: start() on a stopped service with a computation still in flight marks
\* the service running and arms one timer without starting a computation; there
\* is never a second computation in flight; and when the aggregation of a
\* computation that stop() found waiting returns without an error while the
\* service is running again, the computation goes on to its write.
C34_RestartDuringComputation ==
  [][ /\ Start /\ ~isRunning /\ comps # {} =>
           /\ isRunning'
           /\ comps' = comps
           /\ Cardinality(timers') = 1
      /\ Cardinality(comps') <= 1
      /\ \A c \in comps :
           /\ c.id \in stopSeen /\ c.pc = "aggregate" /\ isRunning
           /\ c \notin comps' /\ outcome' # "failed"
           => \E d \in comps' : d.id = c.id /\ d.pc = "replace" ]_vars

\* the service is running again and a computation that was awaiting its
\* aggregation when stop() was called has had its snapshot stored
C34_Witness ==
  /\ isRunning
  /\ timers # {}
  /\ \E c \in comps : c.id \in stopSeen /\ c.pc = "replaced" /\ cache = c.doc

\* C35: while the cache handle is unset, a step that triggers a cycle (timer
\* callback, forced refresh, start()) starts no computation, leaves the guard
\* and the cache document unchanged and leaves the handle unset; the handle
\* becomes set only in a step that runs initialize() (the boot sequence or a
\* read), and no computation is in flight and no snapshot is stored while it is
\* unset.
C35_NoCycleWithoutHandle ==
  [][ /\ cacheCollection = "null" /\ (TimerStep \/ RefreshLeaderboard \/ Start) =>
           /\ comps' = comps
           /\ isUpdating' = isUpdating
           /\ cache' = cache
           /\ cacheCollection' = "null"
      /\ cacheCollection = "null" /\ cacheCollection' # "null" =>
           ApiStart \/ GetLeaderboard
      /\ cacheCollection' = "null" => comps' = {} /\ ~isUpdating' /\ cache' = NoDoc ]_vars

\* a forced refresh was handled while the service was running and idle with the
\* handle unset: it was acknowledged and nothing was started or stored
C35_Witness ==
  /\ cacheCollection = "null"
  /\ isRunning
  /\ response = RefreshAck
  /\ comps = {}
  /\ ~isUpdating
  /\ cache = NoDoc

\* ----------------------------------------------------------------------
\* what the heartbeats of a device inside the 7-day window say, computed from
\* the collection directly
RecentBatches(deviceId) ==
  {b \in telemetry.heartbeats :
     b.deviceId = deviceId /\ \E t \in b.timestamps : 0 - t <= WindowDays * SlotsPerDay}
DistinctHours(deviceId) ==
  Cardinality({t \div SlotsPerHour :
                 t \in {u \in UNION {b.timestamps : b \in RecentBatches(deviceId)} :
                          0 - u <= WindowDays * SlotsPerDay}})
UptimeSamples(deviceId) ==
  {b.uptime[1] : b \in {x \in RecentBatches(deviceId) : x.uptime # <<>>}}

\* C36: the availability score of every listed device is 0 when it has no
\* uptime sample of at least 1800 s in the window, whatever its distinct hours;
\* otherwise it is 45 * min(distinct hours / 154, 1): 45 from 154 hours on and
\* 45 * hours / 154 below; it is always within 0..45.
C36_AvailabilityScore ==
  [][ Written =>
        \A i \in 1..Len(cache'.allNodes) :
          LET id == cache'.allNodes[i].nodeId
              score == ScoredOf(id).availabilityScore
              hours == DistinctHours(id)
          IN /\ score >= 0 /\ score <= 45 * ScoreUnit
             /\ (\A u \in UptimeSamples(id) : u < 1800) => score = 0
             /\ (\E u \in UptimeSamples(id) : u >= 1800) =>
                  IF hours >= 154 THEN score = 45 * ScoreUnit
                  ELSE score % 45 = 0 /\ 154 * (score \div 45) = hours * ScoreUnit ]_vars

\* a device with 168 distinct hours and a longest uptime of 1799 s is listed
\* with availability 0, which leaves it 50 of the 95 points it would have
C36_Witness ==
  /\ cache # NoDoc
  /\ \E i \in 1..Len(cache.allNodes) :
       LET id == cache.allNodes[i].nodeId
       IN /\ DistinctHours(id) = 168
          /\ UptimeSamples(id) = {1799}
          /\ ScoredOf(id).availabilityScore = 0
          /\ cache.allNodes[i].reputationScore = 5000

\* the document the group stage builds for a device
GroupFor(deviceId) == GroupOf(deviceId, Match(telemetry.heartbeats, 0))

\* C37 (as stated): for every listed device the CPU part of the resource
\* headroom score lies in 0..6, the memory part in 0..3 and the storage part in
\* 0..1, and a part whose metric has no sample is half its maximum.
C37_HeadroomPartsClamped ==
  [][ Written =>
        \A i \in 1..Len(cache'.allNodes) :
          LET g == GroupFor(cache'.allNodes[i].nodeId)
              cpu == Headroom(g.avgCpuUsageRaw, 6)
              memory == Headroom(g.avgMemoryUsage, 3)
              storage == Headroom(g.avgDiskUsage, 1)
          IN /\ cpu >= 0 /\ cpu <= 6 * ScoreUnit
             /\ memory >= 0 /\ memory <= 3 * ScoreUnit
             /\ storage >= 0 /\ storage <= ScoreUnit
             /\ g.avgCpuUsageRaw = Null => 2 * cpu = 6 * ScoreUnit
             /\ g.avgMemoryUsage = Null => 2 * memory = 3 * ScoreUnit
             /\ g.avgDiskUsage = Null => 2 * storage = ScoreUnit ]_vars

\* the network quality score of the group document g
NetworkScoreOf(g) == NetworkQualityScore([group |-> g])

\* C38 (as stated): a network metric without any sample in the window costs a
\* listed device nothing: a device without a latency sample is scored better
\* on network quality than it would be with the worst latency (200 ms), and a
\* device without a speed sample better than it would be with speed 0.
C38_AbsentMetricNoPenalty ==
  [][ Written =>
        \A i \in 1..Len(cache'.allNodes) :
          LET g == GroupFor(cache'.allNodes[i].nodeId)
          IN /\ g.avgLatency = Null =>
                  NetworkScoreOf(g) > NetworkScoreOf([g EXCEPT !.avgLatency = Some(200)])
             /\ g.avgNetworkSpeed = Null =>
                  NetworkScoreOf(g) > NetworkScoreOf([g EXCEPT !.avgNetworkSpeed = Some(0)]) ]_vars

\* the tiers from bottom to top
TierLevel(status) ==
  CASE status = "poor" -> 1
    [] status = "average" -> 2
    [] status = "good" -> 3
    [] status = "excellent" -> 4

\* C39: in every written snapshot, of two entries whose devices are both not
\* new, the one with the smaller rank has a tier at least as high as the other.
C39_TierFollowsRank ==
  [][ Written =>
        \A i, j \in 1..Len(cache'.allNodes) :
          LET a == cache'.allNodes[i]
              b == cache'.allNodes[j]
          IN /\ a.rank < b.rank
             /\ ~IsNewNode(DeviceInfo(a.nodeId, telemetry.devices), 0)
             /\ ~IsNewNode(DeviceInfo(b.nodeId, telemetry.devices), 0)
             => TierLevel(a.status) >= TierLevel(b.status) ]_vars

\* two devices that are not new are listed with different tiers
C39_Witness ==
  /\ cache # NoDoc
  /\ Len(cache.allNodes) = 2
  /\ \A i \in 1..2 : ~IsNewNode(DeviceInfo(cache.allNodes[i].nodeId, telemetry.devices), 0)
  /\ cache.allNodes[1].status = "good"
  /\ cache.allNodes[2].status = "poor"

====
